---- MODULE Spec2Model ----
(***************************************************************************)
(* A model of the slot arena of src/src/lib.rs (struct Arena<T>).          *)
(*                                                                         *)
(* The element type T is the `Person` shape of the insert_with example:    *)
(* a value that stores the ArenaId it was created with, next to a payload  *)
(* `val` that comparators look at.  The id stored in a value is therefore  *)
(* the handle that insert returned for it, wherever the value moves.       *)
(*                                                                         *)
(* Vec positions and slot indices are 0-based as in the source; Option is  *)
(* modelled as a sequence of length 0 (None) or 1 (Some).  A panic         *)
(* (failed assert!, unreachable!(), slice index out of bounds) sets the    *)
(* panic flag at the point the source reaches it and ends the run.         *)
(***************************************************************************)
EXTENDS Integers, Sequences, FiniteSets

\* ---- bounds of the exploration ----------------------------------------
MaxLen == 3      \* most values held at once
MaxUid == 4      \* inserts stop once next_uid has reached this
MaxVal == 2      \* payloads are 1..MaxVal
MaxLenIR == 4    \* most values held at once when only insert and remove run
MaxUidIR == 6    \* inserts stop at this next_uid when only insert and remove run
MaxLenCA == 2    \* most values held at once in the runs about clear_all
MaxUidCA == 4    \* inserts stop at this next_uid in the runs about clear_all
MaxUuid == 2     \* Uuid::new_v4() returns one of 1..MaxUuid
MaxFrom == 2     \* longest vector an arena is built from

Vals == 1..MaxVal
Comparators == {"asc", "desc"}

\* ---- Option<T> ----------------------------------------------------------
None == <<>>
Some(x) == <<x>>
IsSome(o) == Len(o) = 1
Unwrap(o) == o[1]
\* the outcome of a read that panics instead of returning
Panics == <<0, 0>>

\* ---- Vec<T>, 0-based ----------------------------------------------------
At(v, i) == v[i + 1]
Put(v, i, x) == [v EXCEPT ![i + 1] = x]
VecSwap(v, i, j) == [v EXCEPT ![i + 1] = v[j + 1], ![j + 1] = v[i + 1]]
VecPop(v) == SubSeq(v, 1, Len(v) - 1)
SwapRemove(v, i) == VecPop(Put(v, i, v[Len(v)]))

\* ---- Slot, State, ArenaId -----------------------------------------------
Used(uid, value) == [tag |-> "Used", uid |-> uid, value |-> value]
Free(next_free) == [tag |-> "Free", next_free |-> next_free]
Slot(value_slot, state) == [value_slot |-> value_slot, state |-> state]
ArenaId(uid, idx) == [uid |-> uid, idx |-> idx]
NoId == ArenaId(0 - 1, 0 - 1)
\* the value the `create` closure builds for payload val and the id it is given
Person(val, id) == [val |-> val, id |-> id]

VARIABLES values, slots, next_uid, first_free, panicked, issued, lastOp

vars == <<values, slots, next_uid, first_free, panicked, issued, lastOp>>

\* the arena as one record, the `self` of the methods
Arena(vs, ss, nu, ff) ==
    [values |-> vs, slots |-> ss, next_uid |-> nu, first_free |-> ff, panic |-> FALSE]
Self == Arena(values, slots, next_uid, first_free)

\* a method's outcome: the arena it leaves and what it returns
Res(self, ret) == [a |-> self, ret |-> ret]
Abort(self) == [a |-> [self EXCEPT !.panic = TRUE], ret |-> Panics]

len(self) == Len(self.values)
slot_count(self) == Len(self.slots)

\* Arena::free_slot_count: a usize subtraction.  With more values than slots it
\* panics in a build with overflow checks (the dev and test profiles) and wraps
\* in a build without them (the release profile); the wrapped usize is written
\* as the signed number it is congruent to modulo 2^64 (-1 is usize::MAX)
free_slot_count(self, overflow_checks) ==
    IF slot_count(self) < len(self) /\ overflow_checks THEN Panics
    ELSE slot_count(self) - len(self)

\* Arena::new
new == Arena(<<>>, <<>>, 1, None)

\* From<Vec<T>> with the generation counter started at 1, as Arena::new starts it
from_restart(vals) ==
    Arena([k \in 1..Len(vals) |-> Person(vals[k], ArenaId(k - 1, k - 1))],
          [k \in 1..Len(vals) |-> Slot(k - 1, Used(k - 1, k - 1))],
          1, None)

\* From<Vec<T>> for Arena: value i gets slot i and tag i, next_uid is the length;
\* each value holds the handle of its slot
from(vals) ==
    Arena([k \in 1..Len(vals) |-> Person(vals[k], ArenaId(k - 1, k - 1))],
          [k \in 1..Len(vals) |-> Slot(k - 1, Used(k - 1, k - 1))],
          Len(vals), None)

\* ---- lookups -------------------------------------------------------------
\* Arena::index_of
index_of(self, id) ==
    IF id.idx >= Len(self.slots) THEN None
    ELSE LET st == At(self.slots, id.idx).state
         IN  IF st.tag = "Used" /\ st.uid = id.uid THEN Some(st.value) ELSE None

\* Arena::get
get(self, id) ==
    IF id.idx >= Len(self.slots) THEN None
    ELSE LET st == At(self.slots, id.idx).state
         IN  IF st.tag = "Used" /\ st.uid = id.uid
             THEN IF st.value < Len(self.values)
                  THEN Some(At(self.values, st.value))
                  ELSE Panics
             ELSE None

\* Arena::get_mut
get_mut(self, id) ==
    IF id.idx >= Len(self.slots) THEN None
    ELSE LET st == At(self.slots, id.idx).state
         IN  IF st.tag = "Used" /\ st.uid = id.uid
             THEN IF st.value < Len(self.values)
                  THEN Some(At(self.values, st.value))
                  ELSE Panics
             ELSE None

\* Arena::contains
contains(self, id) == IF get(self, id) = Panics THEN Panics ELSE Some(IsSome(get(self, id)))

\* Arena::id_at
id_at(self, index) ==
    IF index >= len(self) THEN None
    ELSE IF index >= Len(self.slots) THEN None
    ELSE LET idx == At(self.slots, index).value_slot
         IN  IF idx >= Len(self.slots) THEN Panics
             ELSE LET st == At(self.slots, idx).state
                  IN  IF st.tag = "Used" /\ st.value = index
                      THEN Some(ArenaId(st.uid, idx))
                      ELSE None

\* ---- insert --------------------------------------------------------------
\* Arena::insert_with, from `self.slots[value].value_slot = idx` to the end
insert_finish(self, idx, value, val) ==
    IF value >= Len(self.slots) THEN Abort(self)
    ELSE LET id == ArenaId(self.next_uid, idx)
         IN  Res([self EXCEPT !.slots[value + 1].value_slot = idx,
                              !.next_uid = self.next_uid + 1,
                              !.values = Append(self.values, Person(val, id))],
                 Some(id))

\* Arena::insert_with (insert(value) is insert_with(|_| value))
insert_with(self, val) ==
    LET value == Len(self.values)
    IN  IF self.first_free # None
        THEN LET idx == Unwrap(self.first_free)
                 taken == [self EXCEPT !.first_free = None]
             IN  IF idx >= Len(self.slots) THEN Abort(taken)
                 ELSE IF At(self.slots, idx).state.tag # "Free" THEN Abort(taken)
                 ELSE insert_finish(
                        [taken EXCEPT !.first_free = At(self.slots, idx).state.next_free,
                                      !.slots[idx + 1].state = Used(self.next_uid, value)],
                        idx, value, val)
        ELSE LET idx == Len(self.slots)
             IN  insert_finish(
                   [self EXCEPT !.slots = Append(self.slots,
                                                 Slot(0, Used(self.next_uid, value)))],
                   idx, value, val)

\* ---- pop, remove ---------------------------------------------------------
\* Arena::pop
pop(self) ==
    IF Len(self.values) = 0 THEN Res(self, None)
    ELSE LET value == At(self.values, Len(self.values) - 1)
             s1 == [self EXCEPT !.values = VecPop(self.values)]
             n == Len(s1.values)
         IN  IF n >= Len(s1.slots) THEN Abort(s1)
             ELSE LET slot == At(s1.slots, n).value_slot
                  \* first_free.replace(slot) runs before slots[slot] is indexed
                  IN  IF slot >= Len(s1.slots)
                      THEN Abort([s1 EXCEPT !.first_free = Some(slot)])
                      ELSE Res([s1 EXCEPT !.slots[slot + 1].state = Free(s1.first_free),
                                          !.first_free = Some(slot)],
                               Some(value))

\* remove_swap without the remap of the moved value's slot
remove_swap_noremap(self, removed_val, last_val) ==
    IF last_val >= Len(self.slots) THEN Abort(self)
    ELSE LET last_slot == At(self.slots, last_val).value_slot
             s2 == [self EXCEPT !.slots[removed_val + 1].value_slot = last_slot]
         IN  IF last_slot >= Len(s2.slots) THEN Abort(s2)
             ELSE IF At(s2.slots, last_slot).state.tag # "Used" THEN Abort(s2)
             ELSE Res([s2 EXCEPT !.values = SwapRemove(s2.values, removed_val)],
                      Some(At(s2.values, removed_val)))

\* Arena::remove, the branch `removed_val < last_val`
remove_swap(self, removed_val, last_val) ==
    IF last_val >= Len(self.slots) THEN Abort(self)
    ELSE LET last_slot == At(self.slots, last_val).value_slot
             s2 == [self EXCEPT !.slots[removed_val + 1].value_slot = last_slot]
         IN  IF last_slot >= Len(s2.slots) THEN Abort(s2)
             ELSE IF At(s2.slots, last_slot).state.tag # "Used" THEN Abort(s2)
             ELSE Res([s2 EXCEPT !.slots[last_slot + 1].state.value = removed_val,
                                 !.values = SwapRemove(s2.values, removed_val)],
                      Some(At(s2.values, removed_val)))

\* Arena::remove
remove(self, id) ==
    IF id.idx >= Len(self.slots) THEN Abort(self)
    ELSE LET st == At(self.slots, id.idx).state
         IN  IF ~(st.tag = "Used" /\ st.uid = id.uid) THEN Res(self, None)
             ELSE LET removed_val == st.value
                      s1 == [self EXCEPT !.slots[id.idx + 1].state = Free(self.first_free),
                                         !.first_free = Some(id.idx)]
                  IN  IF Len(s1.values) = 0 THEN Abort(s1)
                      ELSE LET last_val == Len(s1.values) - 1
                           IN  IF removed_val < last_val
                               THEN remove_swap(s1, removed_val, last_val)
                               ELSE pop(s1)

\* Arena::remove_at
remove_at(self, index) ==
    LET id == id_at(self, index)
    IN  IF id = Panics THEN Abort(self)
        ELSE IF id = None THEN Res(self, None)
        ELSE remove(self, Unwrap(id))

\* ---- clear ---------------------------------------------------------------
RECURSIVE clear_loop(_, _)
\* Arena::clear_opt, the loop `for i in 0..self.values.len()` from index i on
clear_loop(self, i) ==
    IF i >= Len(self.values) THEN Res(self, None)
    ELSE IF i >= Len(self.slots) THEN Abort(self)
    ELSE LET slot == At(self.slots, i).value_slot
         \* first_free.replace(slot) runs before slots[slot] is indexed
         IN  IF slot >= Len(self.slots)
             THEN Abort([self EXCEPT !.first_free = Some(slot)])
             ELSE clear_loop([self EXCEPT !.slots[slot + 1].state = Free(self.first_free),
                                          !.first_free = Some(slot)],
                             i + 1)

\* clear_opt that also restarts the generation counter when the slots are dropped
clear_opt_restart(self, clear_slots) ==
    IF clear_slots
    THEN Res([self EXCEPT !.slots = <<>>, !.first_free = None, !.values = <<>>,
                          !.next_uid = 1], None)
    ELSE LET r == clear_loop(self, 0)
         IN  IF r.a.panic THEN r ELSE Res([r.a EXCEPT !.values = <<>>], None)

\* Arena::clear_opt
clear_opt(self, clear_slots) ==
    IF clear_slots
    THEN Res([self EXCEPT !.slots = <<>>, !.first_free = None, !.values = <<>>], None)
    ELSE LET r == clear_loop(self, 0)
         IN  IF r.a.panic THEN r ELSE Res([r.a EXCEPT !.values = <<>>], None)

\* Arena::clear
clear(self) == clear_opt(self, FALSE)

\* Arena::clear_all
clear_all(self) == clear_opt(self, TRUE)

\* ---- swap, sort ----------------------------------------------------------
\* Arena::swap, the second `match &mut self.slots[slot_j]`
swap_second(self, i, slot_i, slot_j) ==
    IF slot_j >= Len(self.slots) THEN Abort(self)
    ELSE IF At(self.slots, slot_j).state.tag # "Used" THEN Abort(self)
    ELSE Res([self EXCEPT !.slots[slot_j + 1].value_slot = slot_i,
                          !.slots[slot_j + 1].state.value = i],
             None)

\* Arena::swap, the first `match &mut self.slots[slot_i]`
swap_first(self, i, j, slot_i, slot_j) ==
    IF slot_i >= Len(self.slots) THEN Abort(self)
    ELSE IF At(self.slots, slot_i).state.tag # "Used" THEN Abort(self)
    ELSE swap_second([self EXCEPT !.slots[slot_i + 1].value_slot = slot_j,
                                  !.slots[slot_i + 1].state.value = j],
                     i, slot_i, slot_j)

\* Arena::swap
swap(self, i, j) ==
    IF ~(i < len(self)) THEN Abort(self)
    ELSE IF ~(j < len(self)) THEN Abort(self)
    ELSE IF i = j THEN Res(self, None)
    ELSE LET s1 == [self EXCEPT !.values = VecSwap(self.values, i, j)]
         IN  IF i >= Len(s1.slots) \/ j >= Len(s1.slots) THEN Abort(s1)
             ELSE swap_first(s1, i, j, At(s1.slots, i).value_slot, At(s1.slots, j).value_slot)

\* Arena::swap_positions
swap_positions(self, i, j) ==
    IF IsSome(index_of(self, i)) /\ IsSome(index_of(self, j))
    THEN LET r == swap(self, Unwrap(index_of(self, i)), Unwrap(index_of(self, j)))
         IN  IF r.a.panic THEN r ELSE Res(r.a, Some(TRUE))
    ELSE Res(self, Some(FALSE))

\* the closure handed to sort_by: the payloads in ascending or descending order
compare(cmp, x, y) ==
    LET l == IF cmp = "asc" THEN x.val ELSE y.val
        r == IF cmp = "asc" THEN y.val ELSE x.val
    IN  IF l < r THEN "Less" ELSE IF l = r THEN "Equal" ELSE "Greater"

\* usize::MAX is written -1: it arises only as 0.wrapping_sub(1) and the only
\* arithmetic the source applies to it is wrapping_add(1)
wrapping_sub1(x) == x - 1
wrapping_add1(x) == x + 1

RECURSIVE partition(_, _, _, _, _)
\* Arena::quicksort, the loop `while i <= high`; returns j
partition(self, i, j, high, cmp) ==
    IF ~(i <= high) THEN Res(self, j)
    ELSE IF compare(cmp, At(self.values, i), At(self.values, high)) = "Greater"
    THEN partition(self, i + 1, j, high, cmp)
    ELSE LET r == swap(self, i, j)
         IN  IF r.a.panic THEN r ELSE partition(r.a, i + 1, j + 1, high, cmp)

RECURSIVE quicksort(_, _, _, _)
\* Arena::quicksort
quicksort(self, low, high, cmp) ==
    IF low + 1 >= wrapping_add1(high) THEN Res(self, None)
    ELSE LET pr == partition(self, low, low, high, cmp)
         IN  IF pr.a.panic THEN pr
             ELSE LET p == pr.ret - 1
                      left == quicksort(pr.a, low, wrapping_sub1(p), cmp)
                  IN  IF left.a.panic THEN left
                      ELSE quicksort(left.a, p + 1, high, cmp)

\* Arena::sort_by
sort_by(self, cmp) ==
    IF len(self) > 1 THEN quicksort(self, 0, len(self) - 1, cmp) ELSE Res(self, None)

\* ---- get2_mut ------------------------------------------------------------
\* Arena::get2_mut: the two values the returned references point at
get2_mut(self, a, b) ==
    LET ia == index_of(self, a)
        ib == index_of(self, b)
        n == Len(self.values)
    IN  IF IsSome(ia) /\ IsSome(ib)
        THEN LET pa == Unwrap(ia)
                 pb == Unwrap(ib)
                 mid == IF pa > pb THEN pa ELSE pb
             IN  IF pa = pb THEN Abort(self)
                 ELSE IF mid > n THEN Abort(self)
                 ELSE IF pa < pb
                      \* (&mut lower[a], &mut upper[0])
                      THEN IF pa < mid /\ mid < n
                           THEN Res(self, <<Some(At(self.values, pa)), Some(At(self.values, mid))>>)
                           ELSE Abort(self)
                      \* (&mut lower[0], &mut upper[b])
                      ELSE IF 0 < mid /\ mid + pb < n
                           THEN Res(self, <<Some(At(self.values, 0)), Some(At(self.values, mid + pb))>>)
                           ELSE Abort(self)
        ELSE IF IsSome(ia)
        THEN IF Unwrap(ia) < n THEN Res(self, <<Some(At(self.values, Unwrap(ia))), None>>)
                               ELSE Abort(self)
        ELSE IF IsSome(ib)
        THEN IF Unwrap(ib) < n THEN Res(self, <<None, Some(At(self.values, Unwrap(ib)))>>)
                               ELSE Abort(self)
        ELSE Res(self, <<None, None>>)

\* Arena::get2_mut: the positions in `values` the two references point at
get2_mut_at(self, a, b) ==
    LET ia == index_of(self, a)
        ib == index_of(self, b)
        n == Len(self.values)
    IN  IF IsSome(ia) /\ IsSome(ib)
        THEN LET pa == Unwrap(ia)
                 pb == Unwrap(ib)
                 mid == IF pa > pb THEN pa ELSE pb
             IN  IF pa = pb THEN Abort(self)
                 ELSE IF mid > n THEN Abort(self)
                 ELSE IF pa < pb
                      \* (&mut lower[a], &mut upper[0])
                      THEN IF pa < mid /\ mid < n
                           THEN Res(self, <<Some(pa), Some(mid)>>)
                           ELSE Abort(self)
                      \* (&mut lower[0], &mut upper[b])
                      ELSE IF 0 < mid /\ mid + pb < n
                           THEN Res(self, <<Some(0), Some(mid + pb)>>)
                           ELSE Abort(self)
        ELSE IF IsSome(ia)
        THEN IF Unwrap(ia) < n THEN Res(self, <<Some(Unwrap(ia)), None>>) ELSE Abort(self)
        ELSE IF IsSome(ib)
        THEN IF Unwrap(ib) < n THEN Res(self, <<None, Some(Unwrap(ib))>>) ELSE Abort(self)
        ELSE Res(self, <<None, None>>)

\* ---- writes through the &mut T the arena hands out ------------------------
\* the value a caller puts in place of `old`: a new payload, the id the value was
\* created with kept
Update(old, val) == Person(val, old.id)

\* `*r = Update(*r, val)` for a reference r to values[p]
SetAt(self, p, val) == [self EXCEPT !.values = Put(self.values, p, Update(At(self.values, p), val))]

\* `if let Some(v) = arena.get_mut(id) { *v = .. }`, the doc example of get_mut
get_mut_set(self, id, val) ==
    LET r == get_mut(self, id)
    IN  IF r = Panics THEN Abort(self)
        ELSE IF r = None THEN Res(self, None)
        ELSE Res(SetAt(self, Unwrap(index_of(self, id)), val), r)

\* IndexMut::index_mut, `arena[id] = ..`: get_mut(id).unwrap()
index_mut_set(self, id, val) ==
    LET r == get_mut(self, id)
    IN  IF r = Panics \/ r = None THEN Abort(self)
        ELSE Res(SetAt(self, Unwrap(index_of(self, id)), val), r)

\* get2_mut(a, b) and a write through each reference it returned, the doc example
\* of get2_mut; what is returned is what get2_mut returned
get2_mut_set(self, a, b, va, vb) ==
    LET at == get2_mut_at(self, a, b)
    IN  IF at.a.panic THEN at
        ELSE LET s1 == IF IsSome(at.ret[1]) THEN SetAt(self, Unwrap(at.ret[1]), va) ELSE self
                 s2 == IF IsSome(at.ret[2]) THEN SetAt(s1, Unwrap(at.ret[2]), vb) ELSE s1
             IN  Res(s2, get2_mut(self, a, b).ret)

\* `arena.as_mut_slice()[i] = ..` (iter_mut gives the same references one by one)
as_mut_slice_set(self, i, val) ==
    IF i >= Len(self.values) THEN Abort(self) ELSE Res(SetAt(self, i, val), None)

\* `arena.as_mut_slice().swap(i, j)`: the values change places, the slots are not
\* told (the re-arranging the doc comment of as_mut_slice warns of)
as_mut_slice_swap(self, i, j) ==
    IF i >= Len(self.values) \/ j >= Len(self.values) THEN Abort(self)
    ELSE Res([self EXCEPT !.values = VecSwap(self.values, i, j)], None)

\* ---- iteration -----------------------------------------------------------
\* what a loop over an iterator collects: the items, and whether next() aborted
Yield(items, aborted) == [items |-> items, aborted |-> aborted]

RECURSIVE ids_next(_, _)
\* Ids::next from slot k of the slice on, until it returns None
ids_next(self, k) ==
    IF k >= len(self) THEN <<>>
    ELSE LET st == At(self.slots, k).state
         IN  IF st.tag = "Used"
             THEN <<ArenaId(st.uid, k)>> \o ids_next(self, k + 1)
             ELSE <<>>

\* Arena::ids, collected: the iterator runs over self.slots[..self.len()]
ids(self) ==
    IF len(self) > Len(self.slots) THEN Yield(<<>>, TRUE)
    ELSE Yield(ids_next(self, 0), FALSE)

RECURSIVE pairs_next(_, _, _)
\* Pairs::next / PairsMut::next from position p on; acc is what was yielded before
pairs_next(self, p, acc) ==
    IF p >= len(self) THEN Yield(acc, FALSE)
    ELSE IF p >= Len(self.slots) THEN Yield(acc, TRUE)
    ELSE LET idx == At(self.slots, p).value_slot
         IN  IF idx >= Len(self.slots) THEN Yield(acc, TRUE)
             ELSE LET st == At(self.slots, idx).state
                  IN  IF st.tag = "Used"
                      THEN pairs_next(self, p + 1,
                                      Append(acc, <<ArenaId(st.uid, idx), At(self.values, p)>>))
                      ELSE Yield(acc, TRUE)

\* Arena::pairs, collected
pairs(self) == pairs_next(self, 0, <<>>)

\* Arena::pairs_mut, collected
pairs_mut(self) == pairs_next(self, 0, <<>>)

\* ---- the persisted format ------------------------------------------------
\* ser::Entry / ser::DeEntry
Entry(uid, idx, val) == [uid |-> uid, idx |-> idx, val |-> val]

\* Serialize for Arena: next_uid and one entry per item of pairs(), in position
\* order; aborts when pairs() does
serialize(self) ==
    LET ps == pairs(self)
    IN  IF ps.aborted THEN Abort(self)
        ELSE Res(self, [next_uid |-> self.next_uid,
                        entries |-> [k \in 1..Len(ps.items) |->
                                       Entry(ps.items[k][1].uid, ps.items[k][1].idx,
                                             ps.items[k][2])]])

RECURSIVE sort_by_idx(_)
\* de.entries.sort_by(|a, b| a.idx.cmp(&b.idx)), a stable sort
sort_by_idx(es) ==
    IF Len(es) <= 1 THEN es
    ELSE LET init == sort_by_idx(SubSeq(es, 1, Len(es) - 1))
             e == es[Len(es)]
             keep == {k \in 1..Len(init) : init[k].idx <= e.idx}
             n == Cardinality(keep)
         IN  SubSeq(init, 1, n) \o <<e>> \o SubSeq(init, n + 1, Len(init))

\* what the loops of Deserialize carry: the slot table built so far, the free
\* list head, and whether an index went out of bounds
DeState(ss, ff, aborted) == [slots |-> ss, first_free |-> ff, aborted |-> aborted]

RECURSIVE de_fill(_, _, _)
\* Deserialize, `while slots.len() < e.idx`: free slots up to the entry's index;
\* next_value_slot is slots.len() throughout
de_fill(es, idx, st) ==
    IF st.aborted \/ ~(Len(st.slots) < idx) THEN st
    ELSE IF Len(st.slots) >= Len(es) THEN DeState(st.slots, st.first_free, TRUE)
    ELSE de_fill(es, idx,
                 DeState(Append(st.slots, Slot(At(es, Len(st.slots)).idx, Free(st.first_free))),
                         Some(Len(st.slots)), FALSE))

RECURSIVE de_entries(_, _, _)
\* Deserialize, `for e in &de.entries` from entry k on; next_value is k
de_entries(es, k, st) ==
    IF st.aborted \/ k >= Len(es) THEN st
    ELSE LET filled == de_fill(es, At(es, k).idx, st)
         IN  IF filled.aborted THEN filled
             ELSE IF Len(filled.slots) >= Len(es)
                  THEN DeState(filled.slots, filled.first_free, TRUE)
             ELSE de_entries(es, k + 1,
                    DeState(Append(filled.slots,
                                   Slot(At(es, Len(filled.slots)).idx, Used(At(es, k).uid, k))),
                            filled.first_free, FALSE))

\* Deserialize for Arena
deserialize(de) ==
    LET es == sort_by_idx(de.entries)
        st == de_entries(es, 0, DeState(<<>>, None, FALSE))
    IN  IF st.aborted THEN Abort(new)
        ELSE Res(Arena([k \in 1..Len(es) |-> es[k].val], st.slots, de.next_uid, st.first_free),
                 None)

\* ---- handles, without and with the `uuid` feature --------------------------
\* the values Uuid::new_v4() can return
Uuids == 1..MaxUuid
\* the uuid the arena drew when it was built; it keeps it for life
ArenaUuid == 1

\* ArenaId as built with the `uuid` feature: the arena's uuid beside uid and idx
ArenaIdUuid(uuid, id) == [uuid |-> uuid, uid |-> id.uid, idx |-> id.idx]

\* Clone for ArenaId, built without the `uuid` feature
clone(id) == ArenaId(id.uid, id.idx)
\* Clone for ArenaId, built with the `uuid` feature; fresh is what Uuid::new_v4() returned
clone_uuid(id, fresh) == [uuid |-> fresh, uid |-> id.uid, idx |-> id.idx]

\* PartialEq for ArenaId, #[cfg(not(feature = "uuid"))]
eq(x, y) == x.uid = y.uid /\ x.idx = y.idx
\* PartialEq for ArenaId, #[cfg(feature = "uuid")]
eq_uuid(x, y) == x.uuid = y.uuid /\ x.uid = y.uid /\ x.idx = y.idx

\* Arena::match_id
match_id(uuid, id) == id.uuid = uuid

\* Arena::get, built with the `uuid` feature
get_uuid(self, uuid, id) ==
    IF ~match_id(uuid, id) THEN None ELSE get(self, ArenaId(id.uid, id.idx))

\* ---- the state machine ---------------------------------------------------
Op(name, a, b, i, j, ret) ==
    [op |-> name, a |-> a, b |-> b, i |-> i, j |-> j, cmp |-> "", ret |-> ret]

\* the handles a caller can hold: those insert has returned
Handles == {issued[k] : k \in 1..Len(issued)}

Init ==
    /\ values = new.values
    /\ slots = new.slots
    /\ next_uid = new.next_uid
    /\ first_free = new.first_free
    /\ panicked = FALSE
    /\ issued = <<>>
    /\ lastOp = Op("new", NoId, NoId, 0 - 1, 0 - 1, None)

\* the arena fields and the panic flag after a method has run
Becomes(r) ==
    /\ values' = r.a.values
    /\ slots' = r.a.slots
    /\ next_uid' = r.a.next_uid
    /\ first_free' = r.a.first_free
    /\ panicked' = r.a.panic

\* insert of a payload from vals, while fewer than maxLen values are held and
\* next_uid is below maxUid
InsertOf(maxLen, maxUid, vals) ==
    /\ ~panicked
    /\ Len(values) < maxLen
    /\ next_uid < maxUid
    /\ \E val \in vals :
         LET r == insert_with(Self, val)
         IN  /\ Becomes(r)
             /\ issued' = IF r.a.panic THEN issued ELSE Append(issued, Unwrap(r.ret))
             /\ lastOp' = Op("insert", NoId, NoId, val, 0 - 1, r.ret)

InsertWithin(maxLen, maxUid) == InsertOf(maxLen, maxUid, Vals)

Insert == InsertWithin(MaxLen, MaxUid)

InsertIR == InsertWithin(MaxLenIR, MaxUidIR)

Remove ==
    /\ ~panicked
    /\ \E id \in Handles :
         LET r == remove(Self, id)
         IN  /\ Becomes(r)
             /\ lastOp' = Op("remove", id, NoId, 0 - 1, 0 - 1, r.ret)
    /\ UNCHANGED issued

Pop ==
    /\ ~panicked
    /\ LET r == pop(Self)
       IN  /\ Becomes(r)
           /\ lastOp' = Op("pop", NoId, NoId, 0 - 1, 0 - 1, r.ret)
    /\ UNCHANGED issued

RemoveAt ==
    /\ ~panicked
    /\ \E index \in 0..Len(values) :
         LET r == remove_at(Self, index)
         IN  /\ Becomes(r)
             /\ lastOp' = Op("remove_at", NoId, NoId, index, 0 - 1, r.ret)
    /\ UNCHANGED issued

Clear ==
    /\ ~panicked
    /\ LET r == clear(Self)
       IN  /\ Becomes(r)
           /\ lastOp' = Op("clear", NoId, NoId, 0 - 1, 0 - 1, r.ret)
    /\ UNCHANGED issued

ClearAll ==
    /\ ~panicked
    /\ LET r == clear_all(Self)
       IN  /\ Becomes(r)
           /\ lastOp' = Op("clear_all", NoId, NoId, 0 - 1, 0 - 1, r.ret)
    /\ UNCHANGED issued

Swap ==
    /\ ~panicked
    /\ \E i \in 0..Len(values), j \in 0..Len(values) :
         LET r == swap(Self, i, j)
         IN  /\ Becomes(r)
             /\ lastOp' = Op("swap", NoId, NoId, i, j, r.ret)
    /\ UNCHANGED issued

SwapPositions ==
    /\ ~panicked
    /\ \E a \in Handles, b \in Handles :
         LET r == swap_positions(Self, a, b)
         IN  /\ Becomes(r)
             /\ lastOp' = Op("swap_positions", a, b, 0 - 1, 0 - 1, r.ret)
    /\ UNCHANGED issued

SortBy ==
    /\ ~panicked
    /\ \E cmp \in Comparators :
         LET r == sort_by(Self, cmp)
         IN  /\ Becomes(r)
             /\ lastOp' = [Op("sort_by", NoId, NoId, 0 - 1, 0 - 1, r.ret) EXCEPT !.cmp = cmp]
    /\ UNCHANGED issued

Next ==
    \/ Insert
    \/ Remove
    \/ RemoveAt
    \/ Pop
    \/ Clear
    \/ ClearAll
    \/ Swap
    \/ SwapPositions
    \/ SortBy

Spec == Init /\ [][Next]_vars

\* insert and remove(handle) only, the operations of rain_test
NextIR ==
    \/ InsertIR
    \/ Remove

SpecIR == Init /\ [][NextIR]_vars

\* get2_mut on two handles the caller holds, and the caller's writes through the
\* references it returned
Get2Mut ==
    /\ ~panicked
    /\ \E a \in Handles, b \in Handles, va \in Vals, vb \in Vals :
         LET r == get2_mut_set(Self, a, b, va, vb)
         IN  /\ Becomes(r)
             /\ lastOp' = Op("get2_mut", a, b, va, vb, r.ret)
    /\ UNCHANGED issued

\* get_mut on a handle the caller holds, and the caller's write through the
\* reference
GetMut ==
    /\ ~panicked
    /\ \E id \in Handles, val \in Vals :
         LET r == get_mut_set(Self, id, val)
         IN  /\ Becomes(r)
             /\ lastOp' = Op("get_mut", id, NoId, val, 0 - 1, r.ret)
    /\ UNCHANGED issued

\* arena[id] = .. on a handle the caller holds
IndexMut ==
    /\ ~panicked
    /\ \E id \in Handles, val \in Vals :
         LET r == index_mut_set(Self, id, val)
         IN  /\ Becomes(r)
             /\ lastOp' = Op("index_mut", id, NoId, val, 0 - 1, r.ret)
    /\ UNCHANGED issued

\* a write in place through as_mut_slice, iter_mut or pairs_mut
AsMutSlice ==
    /\ ~panicked
    /\ \E i \in 0..Len(values), val \in Vals :
         LET r == as_mut_slice_set(Self, i, val)
         IN  /\ Becomes(r)
             /\ lastOp' = Op("as_mut_slice", NoId, NoId, i, val, r.ret)
    /\ UNCHANGED issued

\* two values change places through as_mut_slice
AsMutSliceSwap ==
    /\ ~panicked
    /\ \E i \in 0..Len(values), j \in 0..Len(values) :
         LET r == as_mut_slice_swap(Self, i, j)
         IN  /\ Becomes(r)
             /\ lastOp' = Op("as_mut_slice_swap", NoId, NoId, i, j, r.ret)
    /\ UNCHANGED issued

\* insert, remove(handle) and the calls that hand out &mut T
NextG2 ==
    \/ Insert
    \/ Remove
    \/ Get2Mut
    \/ GetMut
    \/ IndexMut
    \/ AsMutSlice
    \/ AsMutSliceSwap

SpecG2 == Init /\ [][NextG2]_vars

InsertCA == InsertOf(MaxLenCA, MaxUidCA, {1})

\* the operations that write slots, the free list or the counter, with one
\* payload: insert, remove, pop, clear, clear_all and swap (remove_at,
\* swap_positions and sort_by only call these)
NextCA ==
    \/ InsertCA
    \/ Remove
    \/ Pop
    \/ Clear
    \/ ClearAll
    \/ Swap

SpecCA == Init /\ [][NextCA]_vars

\* the arena is written out and read back in its place
Reload ==
    /\ ~panicked
    /\ LET w == serialize(Self)
           r == IF w.a.panic THEN w ELSE deserialize(w.ret)
       IN  /\ Becomes(IF r.a.panic THEN Abort(Self) ELSE r)
           /\ lastOp' = Op("reload", NoId, NoId, 0 - 1, 0 - 1, r.ret)
    /\ UNCHANGED issued

\* insert, remove(handle) and the round trip through the persisted format
NextSer ==
    \/ Insert
    \/ Remove
    \/ Reload

SpecSer == Init /\ [][NextSer]_vars

\* a handle the caller holds is cloned, in a build without or with the `uuid`
\* feature; the arena is not touched
Clone ==
    /\ ~panicked
    /\ \E id \in Handles, uuid_feature \in BOOLEAN, fresh \in Uuids :
         lastOp' = Op("clone", id, NoId, 0 - 1, 0 - 1,
                      Some([uuid_feature |-> uuid_feature,
                            original |-> IF uuid_feature THEN ArenaIdUuid(ArenaUuid, id) ELSE id,
                            copy |-> IF uuid_feature THEN clone_uuid(ArenaIdUuid(ArenaUuid, id), fresh)
                                                     ELSE clone(id)]))
    /\ UNCHANGED <<values, slots, next_uid, first_free, panicked, issued>>

\* insert, remove(handle) and Clone::clone on handles
NextClone ==
    \/ Insert
    \/ Remove
    \/ Clone

SpecClone == Init /\ [][NextClone]_vars

\* the arena is built from a vector of 0..MaxFrom values; the handles of its
\* values are the ones id_at gives out
InitFrom ==
    \E n \in 0..MaxFrom :
        LET self == from([k \in 1..n |-> 1])
        IN  /\ values = self.values
            /\ slots = self.slots
            /\ next_uid = self.next_uid
            /\ first_free = self.first_free
            /\ panicked = FALSE
            /\ issued = [k \in 1..n |-> ArenaId(k - 1, k - 1)]
            /\ lastOp = Op("from", NoId, NoId, n, 0 - 1, None)

\* an arena from new() or from a vector, then insert, remove, pop, clear and
\* clear_all: the operations between which generation tags are handed out
NextGen ==
    \/ InsertCA
    \/ Remove
    \/ Pop
    \/ Clear
    \/ ClearAll

SpecGen == (Init \/ InitFrom) /\ [][NextGen]_vars

\* ---- what the claims speak of -------------------------------------------
\* the handles whose value is in the arena: the id each stored value was created with
LiveIds == {values[k].id : k \in 1..Len(values)}
\* the handles whose value has been removed
StaleIds == Handles \ LiveIds
\* the position of the value that was created with handle h
PosOf(vs, h) == CHOOSE p \in 0..(Len(vs) - 1) : At(vs, p).id = h
\* the value that was created with handle h
ValueOf(vs, h) == At(vs, PosOf(vs, h))
Positions(vs) == 0..(Len(vs) - 1)
Uids(ss) == [k \in 1..Len(ss) |-> IF ss[k].state.tag = "Used" THEN ss[k].state.uid ELSE 0 - 1]
SameArena == Self' = Self

\* C1 (handle stability): after any sequence of insert, remove, remove_at, pop,
\* swap, swap_positions and sort_by calls that returned, every handle whose value
\* has not been removed resolves through get to the value it was issued for.
C1_HandleStability ==
    ~panicked => \A h \in LiveIds : get(Self, h) = Some(ValueOf(values, h))

\* C2 (stale-handle rejection): once the value of handle h has been removed,
\* get(h), contains(h) and index_of(h) report not-found in every later state;
\* they return no other value and do not abort.
C2_StaleRejected ==
    ~panicked => \A h \in StaleIds :
                    /\ get(Self, h) = None
                    /\ contains(Self, h) = Some(FALSE)
                    /\ index_of(Self, h) = None

\* C3 (insert and remove only): every handle that has not been removed resolves
\* through get to the value it was issued for, also after removals at the last
\* position and inserts that reuse freed slots.
C3_InsertRemoveStable ==
    \A h \in LiveIds : get(Self, h) = Some(ValueOf(values, h))

\* remove has just taken the value at the last position (the slot it freed went
\* through pop as well), the handle it removed had itself reused a freed slot,
\* and a value that an earlier removal moved is still resolved by its handle
C3_Witness ==
    /\ lastOp.op = "remove"
    /\ lastOp.ret = Some(Person(1, lastOp.a))
    /\ ~panicked
    /\ At(slots, lastOp.a.idx).state = Free(Some(lastOp.a.idx))
    /\ \E g \in StaleIds : g # lastOp.a /\ g.idx = lastOp.a.idx
    /\ Len(values) >= 2
    /\ \E h \in LiveIds : PosOf(values, h) # h.idx /\ get(Self, h) = Some(Person(1, h))

\* C4 (dual-mapping consistency): for every live position p, id_at(p) returns a
\* handle and index_of of that handle is Some(p).
C4_DualMapping ==
    ~panicked => \A p \in Positions(values) :
                    /\ IsSome(id_at(Self, p))
                    /\ index_of(Self, Unwrap(id_at(Self, p))) = Some(p)

Sorted(vs, cmp) ==
    \A p \in 1..(Len(vs) - 1) : compare(cmp, vs[p], vs[p + 1]) # "Greater"
Permutation(vs, ws) ==
    /\ Len(vs) = Len(ws)
    /\ \A x \in {vs[k] : k \in 1..Len(vs)} \cup {ws[k] : k \in 1..Len(ws)} :
         Cardinality({k \in 1..Len(vs) : vs[k] = x}) = Cardinality({k \in 1..Len(ws) : ws[k] = x})

\* C5 (sort non-invalidation): after sort_by(cmp) has returned, as_slice() is in
\* non-decreasing comparator order and is a permutation of the previous
\* contents, and get of every live handle is the same value as before the sort.
C5_SortKeepsHandles ==
    [][(lastOp'.op = "sort_by" /\ ~panicked') =>
          /\ Sorted(values', lastOp'.cmp)
          /\ Permutation(values, values')
          /\ \A h \in LiveIds : get(Self', h) = get(Self, h)]_vars

\* C6 (position swap bookkeeping): swap(i, j) of in-range i # j exchanges the
\* two values, makes id_at(i) what id_at(j) was and vice versa, exchanges the
\* index_of of the two handles, changes no generation tag and leaves every other
\* back-pointer and every other forward pointer as it was; swap(i, i) changes
\* nothing.  Stated for arenas in which id_at answers for every live position.
C6_SwapBookkeeping ==
    [][(/\ lastOp'.op = "swap"
        /\ lastOp'.i < Len(values) /\ lastOp'.j < Len(values)
        /\ \A p \in Positions(values) : IsSome(id_at(Self, p))) =>
          LET i == lastOp'.i
              j == lastOp'.j
          IN  IF i = j THEN ~panicked' /\ SameArena
              ELSE /\ ~panicked'
                   /\ values' = VecSwap(values, i, j)
                   /\ id_at(Self', i) = id_at(Self, j)
                   /\ id_at(Self', j) = id_at(Self, i)
                   /\ index_of(Self', Unwrap(id_at(Self, i))) = Some(j)
                   /\ index_of(Self', Unwrap(id_at(Self, j))) = Some(i)
                   /\ Uids(slots') = Uids(slots)
                   /\ \A p \in Positions(values) \ {i, j} :
                        At(slots', p).value_slot = At(slots, p).value_slot
                   /\ \A k \in 1..Len(slots) :
                        (k - 1) \notin {At(slots, i).value_slot, At(slots, j).value_slot}
                           => slots'[k].state = slots[k].state]_vars

\* C7 (swap-remove correctness): remove(h) of a live handle at position p that
\* returns leaves the store as the old store with the old last value moved into
\* p and one shorter, the moved value's handle having index_of p, when
\* p < len() - 1; and only truncates the store when p = len() - 1.
C7_SwapRemove ==
    [][(lastOp'.op = "remove" /\ lastOp'.a \in LiveIds /\ ~panicked') =>
          LET p == PosOf(values, lastOp'.a)
              last == Len(values) - 1
          IN  IF p < last
              THEN /\ values' = SwapRemove(values, p)
                   /\ index_of(Self', At(values, last).id) = Some(p)
              ELSE values' = VecPop(values)]_vars

\* C8 (remove returns the value): remove(h) on a live handle h returns Some(v)
\* with v the value inserted under h and makes len() one smaller; remove(h)
\* repeated at once returns None and changes nothing.
C8_RemoveReturns ==
    [][(lastOp'.op = "remove" /\ lastOp'.a \in LiveIds) =>
          /\ ~panicked'
          /\ lastOp'.ret = Some(ValueOf(values, lastOp'.a))
          /\ Len(values') = Len(values) - 1
          /\ remove(Self', lastOp'.a) = Res(Self', None)]_vars

\* C9 (soft failure of removal): remove(h) with a handle that does not resolve
\* to a live value (stale tag, freed slot, slot index >= slot_count()) returns
\* None without aborting and leaves the arena unchanged.
C9_RemoveSoftFailure ==
    [][(lastOp'.op = "remove" /\ index_of(Self, lastOp'.a) = None) =>
          /\ ~panicked'
          /\ lastOp'.ret = None
          /\ SameArena]_vars

\* C10 (no partial failure): a call that is rejected (returns None or false, or
\* aborts) leaves values, slots, the free-list head and the generation counter
\* as they were; no operation aborts after it has changed the arena.
C10_NoPartialFailure ==
    [][(\/ panicked'
        \/ lastOp'.op \in {"remove", "remove_at", "pop"} /\ lastOp'.ret = None
        \/ lastOp'.op = "swap_positions" /\ lastOp'.ret = Some(FALSE)) =>
          /\ values' = values
          /\ slots' = slots
          /\ first_free' = first_free
          /\ next_uid' = next_uid]_vars

\* C11 (shared validation): in every reachable state and for every handle a
\* caller holds (live, stale, or with a slot index past the slot table),
\* contains, get, get_mut and index_of agree on whether the handle resolves,
\* none of them aborts, and when they succeed index_of(h) < len() and get(h) is
\* the value stored at position index_of(h).
C11_SharedValidation ==
    ~panicked =>
      \A h \in Handles :
        /\ get(Self, h) # Panics
        /\ get_mut(Self, h) # Panics
        /\ contains(Self, h) # Panics
        /\ IsSome(get(Self, h)) = IsSome(index_of(Self, h))
        /\ IsSome(get_mut(Self, h)) = IsSome(index_of(Self, h))
        /\ contains(Self, h) = Some(IsSome(index_of(Self, h)))
        /\ IsSome(index_of(Self, h)) =>
              /\ Unwrap(index_of(Self, h)) < len(Self)
              /\ get(Self, h) = Some(At(values, Unwrap(index_of(Self, h))))

\* C12 (id_at is total on live positions and inverts index_of): in every
\* reachable state id_at(p) returns a handle for every p < len() and None for
\* p >= len(), and for every live handle h, id_at(index_of(h)) = Some(h).
C12_IdAtInverse ==
    ~panicked =>
      /\ \A p \in Positions(values) : IsSome(id_at(Self, p))
      /\ \A p \in len(Self)..(len(Self) + 1) : id_at(Self, p) = None
      /\ \A h \in LiveIds :
           /\ IsSome(index_of(Self, h))
           /\ id_at(Self, Unwrap(index_of(Self, h))) = Some(h)

\* C13 (remove_at): remove_at(p) with p < len() removes the value that was at
\* position p and returns it; with p >= len() it returns None and leaves the
\* arena unchanged; it returns None in no other case.
C13_RemoveAt ==
    [][lastOp'.op = "remove_at" =>
          LET p == lastOp'.i
          IN  /\ ~panicked'
              /\ IF p < Len(values)
                 THEN /\ lastOp'.ret = Some(At(values, p))
                      /\ Len(values') = Len(values) - 1
                      /\ \A k \in 1..Len(values') : values'[k].id # At(values, p).id
                 ELSE /\ lastOp'.ret = None
                      /\ SameArena]_vars

\* C14 (pop): pop() on an empty arena returns None and changes nothing;
\* otherwise it returns the value at the last position, shortens the store by
\* one, invalidates exactly the handle that owned the last position, makes that
\* handle's slot the head of the free list linked to the previous head, and
\* leaves the resolution of every other handle unchanged.
C14_Pop ==
    [][lastOp'.op = "pop" =>
          /\ ~panicked'
          /\ IF Len(values) = 0
             THEN lastOp'.ret = None /\ SameArena
             ELSE LET last == values[Len(values)]
                  IN  /\ lastOp'.ret = Some(last)
                      /\ values' = VecPop(values)
                      /\ get(Self', last.id) = None
                      /\ first_free' = Some(last.id.idx)
                      /\ At(slots', last.id.idx).state = Free(first_free)
                      /\ \A h \in Handles \ {last.id} : get(Self', h) = get(Self, h)]_vars

\* C15 (swap_positions): swap_positions(a, b) returns true iff both a and b are
\* live handles; when it returns false the arena is unchanged; when it returns
\* true index_of(a) and index_of(b) are exchanged while get(a) and get(b)
\* return the same values as before the call.
C15_SwapPositions ==
    [][lastOp'.op = "swap_positions" =>
          LET a == lastOp'.a
              b == lastOp'.b
          IN  /\ ~panicked'
              /\ lastOp'.ret = Some(a \in LiveIds /\ b \in LiveIds)
              /\ lastOp'.ret = Some(FALSE) => SameArena
              /\ lastOp'.ret = Some(TRUE) =>
                   /\ index_of(Self', a) = index_of(Self, b)
                   /\ index_of(Self', b) = index_of(Self, a)
                   /\ get(Self', a) = get(Self, a)
                   /\ get(Self', b) = get(Self, b)
                   /\ get(Self', a) = Some(ValueOf(values, a))
                   /\ get(Self', b) = Some(ValueOf(values, b))]_vars

\* what get2_mut owes the caller for handle h: its own value when h is live
Component(vs, h) == IF h \in LiveIds THEN Some(ValueOf(vs, h)) ELSE None

\* C16 (get2_mut resolves each handle independently): get2_mut(a, b) aborts
\* only when a and b are the same live handle; otherwise each component is None
\* for a handle that is not live and the handle's own value for a live handle,
\* whatever the other handle is.
C16_Get2MutIndependent ==
    [][lastOp'.op = "get2_mut" =>
          LET a == lastOp'.a
              b == lastOp'.b
          IN  /\ panicked' = (a \in LiveIds /\ a = b)
              /\ ~panicked' =>
                   /\ lastOp'.ret[1] = Component(values, a)
                   /\ lastOp'.ret[2] = Component(values, b)]_vars

RECURSIVE FreeWalk(_, _, _)
\* the slots met on the free list from head on, following next_free for at most n links
FreeWalk(self, head, n) ==
    IF head = None \/ n = 0 THEN {}
    ELSE LET i == Unwrap(head)
         IN  IF i >= Len(self.slots) THEN {}
             ELSE IF At(self.slots, i).state.tag # "Free" THEN {}
             ELSE {i} \cup FreeWalk(self, At(self.slots, i).state.next_free, n - 1)

\* the slots reachable from the free-list head
FreeList(self) == FreeWalk(self, self.first_free, Len(self.slots))

RECURSIVE InsertN(_, _)
\* the arena after n more inserts, or the arena of the insert that aborted
InsertN(self, n) ==
    IF n = 0 \/ self.panic THEN self ELSE InsertN(insert_with(self, 1).a, n - 1)

\* C17 (clear keeps the slots): after clear(), len() = 0, slot_count() is what
\* it was, every slot is free and reachable from the free-list head and every
\* issued handle is rejected; each of the next slot_count() inserts reuses a
\* freed slot without growing the slot table, and the insert after those grows
\* it by one.
C17_ClearKeepsSlots ==
    [][lastOp'.op = "clear" =>
          /\ ~panicked'
          /\ Len(values') = 0
          /\ Len(slots') = Len(slots)
          /\ \A k \in 1..Len(slots') : slots'[k].state.tag = "Free"
          /\ FreeList(Self') = 0..(Len(slots') - 1)
          /\ \A h \in Handles : get(Self', h) = None /\ index_of(Self', h) = None
          /\ \A n \in 1..Len(slots') :
               /\ ~InsertN(Self', n).panic
               /\ slot_count(InsertN(Self', n)) = Len(slots')
               /\ len(InsertN(Self', n)) = n
          /\ ~InsertN(Self', Len(slots') + 1).panic
          /\ slot_count(InsertN(Self', Len(slots') + 1)) = Len(slots') + 1]_vars

\* no slot of the table carries the generation tag of handle h
TagGone(self, h) ==
    \A k \in 1..Len(self.slots) :
        self.slots[k].state.tag = "Used" => self.slots[k].state.uid # h.uid

\* C18 (clear_all): after clear_all(), len() = 0, slot_count() = 0, the free
\* list is empty and the generation counter is what it was; every handle issued
\* later carries a tag greater than every earlier tag; and every handle issued
\* before the call is rejected by get, contains and index_of in all later
\* states, even when its slot index is allocated again. The last part is
\* checked step by step: after clear_all no slot carries the tag of an issued
\* handle, a tag that no slot carries is carried by no slot after the next
\* operation either, and a handle whose tag no slot carries is rejected.
C18_ClearAll ==
    [][/\ lastOp'.op = "clear_all" =>
            /\ ~panicked'
            /\ Len(values') = 0
            /\ Len(slots') = 0
            /\ first_free' = None
            /\ next_uid' = next_uid
            /\ \A h \in Handles : TagGone(Self', h)
       /\ (lastOp'.op = "insert" /\ ~panicked') =>
            \A h \in Handles : h.uid < Unwrap(lastOp'.ret).uid
       /\ \A h \in Handles :
            TagGone(Self, h) =>
               /\ TagGone(Self', h)
               /\ get(Self', h) = None
               /\ contains(Self', h) = Some(FALSE)
               /\ index_of(Self', h) = None]_vars

\* a handle issued before a clear_all (one of them, g, names a slot index past
\* the table, which only clear_all shortens) whose slot index a later live
\* handle has been given again
C18_Witness ==
    /\ ~panicked
    /\ \E old \in Handles, g \in Handles, fresh \in LiveIds :
         /\ old.uid <= g.uid
         /\ g.idx >= Len(slots)
         /\ g.uid < fresh.uid
         /\ fresh.idx = old.idx
         /\ get(Self, fresh) = Some(ValueOf(values, fresh))

\* C19 (ids view): in every reachable state ids() yields exactly len() handles,
\* the p-th being id_at(p): the handle sequence, in position order, that
\* pairs() yields.
C19_IdsView ==
    ~panicked =>
      /\ ~ids(Self).aborted
      /\ Len(ids(Self).items) = len(Self)
      /\ \A p \in Positions(values) : Some(At(ids(Self).items, p)) = id_at(Self, p)
      /\ ~pairs(Self).aborted
      /\ ids(Self).items = [k \in 1..Len(pairs(Self).items) |-> pairs(Self).items[k][1]]

\* C20 (pairs view): in every reachable state pairs() and pairs_mut() yield
\* exactly len() items without aborting, the p-th being (h, as_slice()[p])
\* where h is a live handle and get(h) is that same value.
C20_PairsView ==
    ~panicked =>
      /\ ~pairs(Self).aborted
      /\ Len(pairs(Self).items) = len(Self)
      /\ pairs_mut(Self) = pairs(Self)
      /\ \A p \in Positions(values) :
           LET item == At(pairs(Self).items, p)
           IN  /\ item[2] = At(values, p)
               /\ item[1] \in LiveIds
               /\ get(Self, item[1]) = Some(At(values, p))

\* the slots in the Free state
FreeSlots(self) == {k \in 0..(Len(self.slots) - 1) : At(self.slots, k).state.tag = "Free"}

\* every occupied slot s with forward pointer p is the back-pointer of position p
FwdBack(self) ==
    \A s \in 0..(Len(self.slots) - 1) :
        At(self.slots, s).state.tag = "Used" =>
           /\ At(self.slots, s).state.value < Len(self.slots)
           /\ At(self.slots, At(self.slots, s).state.value).value_slot = s

\* C21 (persisted-format round trip): serializing a reachable arena, free slots
\* below a live slot included, and deserializing the result succeeds; in the
\* arena read back every handle that was live resolves to the same value under
\* the same tag and slot index, the free slots are threaded on the free list,
\* and the forward/back-pointer invariant holds.
C21_RoundTrip ==
    [][lastOp'.op = "reload" =>
          /\ ~panicked'
          /\ \A h \in LiveIds : get(Self', h) = Some(ValueOf(values, h))
          /\ \A h \in StaleIds : get(Self', h) = None
          /\ len(Self') = len(Self)
          /\ next_uid' = next_uid
          /\ FreeList(Self') = FreeSlots(Self')
          /\ FwdBack(Self')]_vars

\* C22 (handle duplication preserves every field): Clone::clone of a handle
\* compares equal to the original and is accepted by the issuing arena exactly
\* as the original is (same get result), without and with the `uuid` feature.
C22_ClonePreserves ==
    [][lastOp'.op = "clone" =>
          LET c == Unwrap(lastOp'.ret)
          IN  IF c.uuid_feature
              THEN /\ eq_uuid(c.copy, c.original)
                   /\ get_uuid(Self', ArenaUuid, c.copy) = get_uuid(Self', ArenaUuid, c.original)
              ELSE /\ eq(c.copy, c.original)
                   /\ get(Self', c.copy) = get(Self', c.original)]_vars

\* C23 (forward/back-pointer invariant): in every reachable state, for every
\* occupied slot s with forward pointer p, the back-pointer stored for position
\* p (slots[p].value_slot) is s.
C23_ForwardBack == ~panicked => FwdBack(Self)

RECURSIVE FreeWalkEnds(_, _, _)
\* following next_free from head reaches the end of the list within n links,
\* meeting only slots in the Free state
FreeWalkEnds(self, head, n) ==
    IF head = None THEN TRUE
    ELSE IF n = 0 THEN FALSE
    ELSE LET i == Unwrap(head)
         IN  IF i >= Len(self.slots) THEN FALSE
             ELSE IF At(self.slots, i).state.tag # "Free" THEN FALSE
             ELSE FreeWalkEnds(self, At(self.slots, i).state.next_free, n - 1)

\* C24 (free-list well-formedness): in every reachable state, following
\* next_free from first_free terminates, visits every slot in the Free state
\* exactly once and visits no Used slot: the walk ends within as many links as
\* there are free slots and meets all of them.
C24_FreeListWellFormed ==
    ~panicked =>
      /\ FreeWalkEnds(Self, first_free, Cardinality(FreeSlots(Self)))
      /\ FreeList(Self) = FreeSlots(Self)

\* C25 (removing the last element by handle is pop): for a handle h with
\* index_of(h) = len() - 1, remove(h) returns the value pop() returns and leaves
\* exactly the arena pop() leaves from the same starting state: value store,
\* every slot's state and next_free link, free-list head.
C25_RemoveLastIsPop ==
    [][(/\ lastOp'.op = "remove"
        /\ index_of(Self, lastOp'.a) = Some(len(Self) - 1)) =>
          /\ lastOp'.ret = pop(Self).ret
          /\ panicked' = pop(Self).a.panic
          /\ Self' = pop(Self).a]_vars

\* C26 (slot accounting): in every reachable state len() <= slot_count(), and
\* the number of slots in the Free state is slot_count() - len(), the value
\* free_slot_count() reports in a build with and in a build without overflow
\* checks.
C26_SlotAccounting ==
    ~panicked =>
      /\ len(Self) <= slot_count(Self)
      /\ Cardinality(FreeSlots(Self)) = slot_count(Self) - len(Self)
      /\ \A overflow_checks \in BOOLEAN :
           free_slot_count(Self, overflow_checks) = Cardinality(FreeSlots(Self))

\* C27 (allocation policy): while at least one slot is free insert reuses the
\* slot at the free-list head, leaves slot_count() as it was and moves the head
\* to that slot's next_free link; it appends a slot (slot_count() grows by
\* exactly one) only when no slot is free.
C27_AllocationPolicy ==
    [][lastOp'.op = "insert" =>
          /\ ~panicked'
          /\ IF FreeSlots(Self) # {}
             THEN /\ IsSome(first_free)
                  /\ Unwrap(lastOp'.ret).idx = Unwrap(first_free)
                  /\ slot_count(Self') = slot_count(Self)
                  /\ first_free' = At(slots, Unwrap(first_free)).state.next_free
             ELSE /\ Unwrap(lastOp'.ret).idx = slot_count(Self)
                  /\ slot_count(Self') = slot_count(Self) + 1
                  /\ first_free' = first_free]_vars

\* C28 (generation tags are never reused): every handle insert returns carries
\* a tag strictly greater than the tag of every handle issued before by the
\* same arena, the tags given by construction from a vector included, and
\* across clear and clear_all; so no two issued handles are equal.
C28_TagsNeverReused ==
    [][(lastOp'.op = "insert" /\ ~panicked') =>
          /\ \A k \in 1..Len(issued) : issued[k].uid < Unwrap(lastOp'.ret).uid
          /\ \A i \in 1..Len(issued'), j \in 1..Len(issued') :
               i # j => issued'[i] # issued'[j]]_vars

\* insert has just returned a handle for a slot index that a handle of the
\* vector the arena was built from (tag 0) had, after a clear_all (handle g
\* names a slot index past the table)
C28_Witness ==
    /\ ~panicked
    /\ lastOp.op = "insert"
    /\ \E old \in Handles, g \in Handles :
         /\ old.uid = 0
         /\ g.idx >= Len(slots)
         /\ old.idx = Unwrap(lastOp.ret).idx
         /\ Unwrap(lastOp.ret) \in LiveIds

\* C29 (insert always completes): in every reachable state first_free, when it
\* is Some(i), names a slot in the Free state, so insert never aborts; after
\* the call len() has grown by exactly one, the new value is at the last
\* position, and the returned handle, the one the value was created with,
\* resolves to it.
C29_InsertCompletes ==
    [][/\ ~panicked' =>
            (IsSome(first_free') =>
               /\ Unwrap(first_free') < Len(slots')
               /\ At(slots', Unwrap(first_free')).state.tag = "Free")
       /\ lastOp'.op = "insert" =>
            /\ ~panicked'
            /\ len(Self') = len(Self) + 1
            /\ At(values', len(Self)).id = Unwrap(lastOp'.ret)
            /\ At(values', len(Self)).val = lastOp'.i
            /\ get(Self', Unwrap(lastOp'.ret)) = Some(At(values', len(Self)))]_vars

\* the occupied slots
UsedSlots(self) == {k \in 0..(Len(self.slots) - 1) : At(self.slots, k).state.tag = "Used"}

\* C30 (forward pointers form a bijection): in every reachable state the
\* forward pointers of the occupied slots are pairwise distinct and are exactly
\* the positions 0..len()-1, so two distinct live handles never resolve to the
\* same position and get2_mut's assert_ne can fire only for the same handle
\* passed twice.
C30_ForwardBijection ==
    ~panicked =>
      /\ \A s \in UsedSlots(Self), t \in UsedSlots(Self) :
           s # t => At(slots, s).state.value # At(slots, t).state.value
      /\ {At(slots, s).state.value : s \in UsedSlots(Self)} = Positions(values)
      /\ \A a \in Handles, b \in Handles :
           (a # b /\ IsSome(index_of(Self, a))) => index_of(Self, a) # index_of(Self, b)

RECURSIVE SwapsInRange(_, _, _, _, _)
\* the partition loop of quicksort from (i, j) on calls swap only with both
\* indices below len()
SwapsInRange(self, i, j, high, cmp) ==
    IF ~(i <= high) THEN TRUE
    ELSE IF compare(cmp, At(self.values, i), At(self.values, high)) = "Greater"
    THEN SwapsInRange(self, i + 1, j, high, cmp)
    ELSE /\ i < len(self)
         /\ j < len(self)
         /\ ~swap(self, i, j).a.panic
         /\ SwapsInRange(swap(self, i, j).a, i + 1, j + 1, high, cmp)

RECURSIVE QuicksortInRange(_, _, _, _)
\* every quicksort(low, high) call of the run has its partition index p within
\* low..high, recurses on strictly smaller ranges and swaps within 0..len()
QuicksortInRange(self, low, high, cmp) ==
    IF low + 1 >= wrapping_add1(high) THEN TRUE
    ELSE /\ SwapsInRange(self, low, low, high, cmp)
         /\ LET pr == partition(self, low, low, high, cmp)
                p == pr.ret - 1
            IN  /\ ~pr.a.panic
                /\ low <= p /\ p <= high
                /\ (p - 1) - low < high - low
                /\ high - (p + 1) < high - low
                /\ QuicksortInRange(pr.a, low, wrapping_sub1(p), cmp)
                /\ ~quicksort(pr.a, low, wrapping_sub1(p), cmp).a.panic
                /\ QuicksortInRange(quicksort(pr.a, low, wrapping_sub1(p), cmp).a, p + 1, high, cmp)

\* C31 (sort_by runs to completion): on every reachable arena and for every
\* total-order comparator sort_by returns without aborting; in each
\* quicksort(low, high) call the partition index p satisfies low <= p <= high,
\* both recursive ranges are strictly smaller, and swap is never called with an
\* index outside 0..len().
C31_SortCompletes ==
    [][lastOp'.op = "sort_by" =>
          /\ ~panicked'
          /\ len(Self) > 1 => QuicksortInRange(Self, 0, len(Self) - 1, lastOp'.cmp)
          /\ Len(values') = Len(values)]_vars
====
